---- MODULE Spec2Model ----
(***************************************************************************)
(* A model of the voice chat client: the streaming decoder of the          *)
(* inference gateway (services/ollama.ts), the speech engine               *)
(* (hooks/useSpeech.ts) and the conversation orchestrator                  *)
(* (components/ChatView.tsx).                                              *)
(*                                                                         *)
(* SpecStream is one call of generateChatStream against one response.      *)
(***************************************************************************)
EXTENDS Integers, Sequences, FiniteSets, TLC

VARIABLES
    \* ---- one generateChatStream call (services/ollama.ts) ----
    body,        \* the characters of the response body the server sends
    pos,         \* how many of them reader.read() has handed over so far
    buffer,      \* `buffer`: the unterminated tail kept between reads
    calls,       \* the callbacks invoked so far, in order
    gpc,         \* where the call is: "fetch", "reading" or "done"
    timerArmed,  \* the setTimeout of fetchWithTimeout is pending
    aborted,     \* controller.abort() has been called
    timedOut,    \* the timeout has elapsed while the request was in flight
    thrown,      \* the promise returned to the caller rejected
    failure,     \* how the request failed, "none" while it has not
    \* ---- the chat view (components/ChatView.tsx) ----
    mode,        \* ChatMode
    messages,    \* the conversation history
    reqs,        \* the generateChatStream calls made so far, oldest first
    \* ---- the speech engine (hooks/useSpeech.ts) ----
    speechState,       \* SpeechState
    permissionError,   \* a permission denial is recorded
    sentenceQueue,     \* sentenceQueueRef.current
    wakeWordDetected,  \* wakeWordDetectedRef.current
    recognition,       \* recognitionRef.current: handlers and running session
    endPending,        \* the end event of a finished session is still to come
    synth,             \* the utterances handed to window.speechSynthesis
    \* ---- one generateJson call (services/ollama.ts) ----
    json,              \* the model's response and what the call made of it
    \* ---- the settings provider (context/SettingsContext.tsx) ----
    settings,          \* the provider's state and its refreshes in flight
    \* ---- observations (no code reads them) ----
    last,              \* what the handler that ran last did
    session            \* what the recognition session started last has seen

gvars == <<body, pos, buffer, calls, gpc, timerArmed, aborted, timedOut, thrown, failure>>

hvars == <<mode, messages, reqs, speechState, permissionError, sentenceQueue,
           wakeWordDetected, recognition, endPending, synth, json, last, session>>

ovars == <<mode, messages, reqs, speechState, permissionError, sentenceQueue,
           wakeWordDetected, recognition, endPending, synth, json, settings, last, session>>

vars == <<body, pos, buffer, calls, gpc, timerArmed, aborted, timedOut, thrown, failure,
          mode, messages, reqs, speechState, permissionError, sentenceQueue,
          wakeWordDetected, recognition, endPending, synth, json, settings, last, session>>

----------------------------------------------------------------------------
(* Bounds *)

\* the most lines a response body holds
MaxLines == 3
\* the most generateChatStream calls of one run of the chat view
MaxRequests == 2
\* the most chunks the streams of one run deliver, all together
MaxChunks == 2
\* the most fragments waiting or playing before a caller of speak holds back
MaxQueue == 2
\* the count at which the counters of a recognition session stop counting
MaxCount == 2
\* the most model-list refreshes in flight at a time
MaxRefreshes == 2
\* the most characters of a response handed to extractJson
MaxText == 5

----------------------------------------------------------------------------
(* Characters and lines of a streamed response *)

NL == "\n"
SP == " "

\* {"message":{"content":"a"}} and {"message":{"content":"b"}}: records with text
RecA == <<"{", "a", "}">>
RecB == <<"{", "b", "}">>
\* a record that parses but carries no message content (such as the final
\* {"done":true} record, or one whose content is "")
RecNoContent == <<"{", "}">>
\* a line JSON.parse rejects
Malformed == <<"{", "a">>
\* a whitespace-only line
Blank == <<SP>>

LineKinds == {RecA, RecB, RecNoContent, Malformed, Blank}

RECURSIVE Join(_, _)
\* the lines separated by newlines, the last one terminated when term holds
Join(ls, term) ==
    IF ls = <<>> THEN <<>>
    ELSE IF Len(ls) = 1 THEN (IF term THEN Append(ls[1], NL) ELSE ls[1])
    ELSE Append(ls[1], NL) \o Join(Tail(ls), term)

Bodies ==
    { Join(ls, term) :
        ls \in UNION { [1..n -> LineKinds] : n \in 0..MaxLines },
        term \in BOOLEAN }

RECURSIVE SplitNL(_)
\* String.prototype.split('\n'): always at least one element, the last one
\* being what follows the last newline
SplitNL(s) ==
    IF \A i \in 1..Len(s) : s[i] # NL THEN <<s>>
    ELSE LET i == CHOOSE j \in 1..Len(s) :
                      s[j] = NL /\ \A k \in 1..(j-1) : s[k] # NL
         IN <<SubSeq(s, 1, i-1)>> \o SplitNL(SubSeq(s, i+1, Len(s)))

\* the whitespace String.prototype.trim strips
White == {SP, NL}

RECURSIVE Trim(_)
\* String.prototype.trim
Trim(s) ==
    IF s = <<>> THEN s
    ELSE IF s[1] \in White THEN Trim(Tail(s))
    ELSE IF s[Len(s)] \in White THEN Trim(SubSeq(s, 1, Len(s)-1))
    ELSE s

\* JSON.parse(line) followed by chunkJson.message && chunkJson.message.content:
\* "malformed" when JSON.parse throws, "" when there is no content to deliver,
\* the content otherwise
ParseContent(line) ==
    LET t == Trim(line) IN
    IF Len(t) = 3 /\ t[1] = "{" /\ t[3] = "}" /\ t[2] \in {"a", "b"} THEN t[2]
    ELSE IF t = <<"{", "}">> THEN ""
    ELSE "malformed"

Chunk(text) == [cb |-> "chunk", text |-> text]
ErrorCall == [cb |-> "error", text |-> ""]
CloseCall == [cb |-> "close", text |-> ""]

\* the body of the for loop over the complete lines of one read
ProcessLine(cs, line) ==
    IF Trim(line) = <<>> THEN cs
    ELSE LET c == ParseContent(line) IN
         IF c = "malformed" THEN cs      \* caught and logged by the inner catch
         ELSE IF c # "" THEN Append(cs, Chunk(c))
         ELSE cs

RECURSIVE ProcessLines(_, _)
ProcessLines(cs, lines) ==
    IF lines = <<>> THEN cs
    ELSE ProcessLines(ProcessLine(cs, lines[1]), Tail(lines))

\* lines.pop() || ''
PopLast(lines) == lines[Len(lines)]
Front(lines) == SubSeq(lines, 1, Len(lines) - 1)

\* what the loop does once reader.read() reports done: break, nothing else
AtStreamEnd(cs, buf) == cs

\* a finally block that reports completion only when something was delivered
FinishUnlessEmpty(cs) == IF cs = <<>> THEN cs ELSE Append(cs, CloseCall)

\* the finally block of a call that ended without an exception
Finish(cs) == Append(cs, CloseCall)

\* a try/finally without the catch: the finalizer runs and the error escapes
FailRethrow(cs) == [calls |-> Append(cs, CloseCall), thrown |-> TRUE]

\* the catch and finally blocks of a call in which something threw
Fail(cs) == [calls |-> Append(Append(cs, ErrorCall), CloseCall), thrown |-> FALSE]

----------------------------------------------------------------------------
(* The speech engine (hooks/useSpeech.ts) and the chat view                *)
(* (components/ChatView.tsx).                                              *)
(*                                                                         *)
(* Every handler runs to completion on the one JavaScript thread; the      *)
(* state updates it makes are then rendered and the effects whose          *)
(* dependencies changed run, until nothing changes any more (Settle).      *)
(* A callback keeps the values of the render that created it: the speak of *)
(* a request keeps that render's speechState (css), the recognition        *)
(* handlers keep the speechState of the render whose effect installed      *)
(* them, and handleActivation and handleTranscript (useCallback with no    *)
(* dependencies) keep the first render's speak, stop and messages.         *)
(*                                                                         *)
(* The platform recognizer is one object: stop() ends its session, whose   *)
(* end event is still dispatched later to whatever onend is installed      *)
(* then; start() on a recognizer that is already started throws and        *)
(* starts nothing.                                                         *)
(***************************************************************************)

\* ---- structured extraction (generateJson) ----

\* the characters of a response: brackets of both kinds, a digit and a blank
JsonChars == {"{", "}", "[", "]", "1", SP}

RECURSIVE TextsOfLength(_)
\* the responses of n characters
TextsOfLength(n) ==
    IF n = 0 THEN { <<>> }
    ELSE { Append(t, c) : t \in TextsOfLength(n - 1), c \in JsonChars }

\* result.response
Responses == UNION { TextsOfLength(n) : n \in 0..MaxText }

\* String.prototype.indexOf, counting from 1, 0 when absent
IndexOf(text, c) ==
    LET at == { i \in 1..Len(text) : text[i] = c } IN
    IF at = {} THEN 0 ELSE CHOOSE i \in at : \A j \in at : i <= j

\* String.prototype.lastIndexOf, counting from 1, 0 when absent
LastIndexOf(text, c) ==
    LET at == { i \in 1..Len(text) : text[i] = c } IN
    IF at = {} THEN 0 ELSE CHOOSE i \in at : \A j \in at : i >= j

\* what extractJson returns when it finds no span
Null == <<"null">>

\* an extractJson that ends the span at the first closing bracket
ExtractJsonShortest(response) ==
    LET text == Trim(response)
        firstBrace == IndexOf(text, "{")
        firstBracket == IndexOf(text, "[")
    IN IF firstBrace = 0 /\ firstBracket = 0 THEN Null
       ELSE IF firstBrace # 0 /\ (firstBrace < firstBracket \/ firstBracket = 0)
       THEN LET lastBrace == IndexOf(text, "}") IN
            IF lastBrace > firstBrace THEN SubSeq(text, firstBrace, lastBrace) ELSE Null
       ELSE LET lastBracket == IndexOf(text, "]") IN
            IF lastBracket > firstBracket THEN SubSeq(text, firstBracket, lastBracket)
            ELSE Null

\* extractJson
ExtractJson(response) ==
    LET text == Trim(response)
        firstBrace == IndexOf(text, "{")
        firstBracket == IndexOf(text, "[")
    IN IF firstBrace = 0 /\ firstBracket = 0 THEN Null
       ELSE IF firstBrace # 0 /\ (firstBrace < firstBracket \/ firstBracket = 0)
       THEN LET lastBrace == LastIndexOf(text, "}") IN
            IF lastBrace > firstBrace THEN SubSeq(text, firstBrace, lastBrace) ELSE Null
       ELSE IF firstBracket # 0
       THEN LET lastBracket == LastIndexOf(text, "]") IN
            IF lastBracket > firstBracket THEN SubSeq(text, firstBracket, lastBracket)
            ELSE Null
       ELSE Null

RECURSIVE SkipBlanks(_, _)
\* the first place at or after i that holds no blank
SkipBlanks(text, i) ==
    IF i <= Len(text) /\ text[i] \in White THEN SkipBlanks(text, i + 1) ELSE i

RECURSIVE SkipDigits(_, _)
\* the first place at or after i that holds no digit
SkipDigits(text, i) ==
    IF i <= Len(text) /\ text[i] = "1" THEN SkipDigits(text, i + 1) ELSE i

RECURSIVE ValueEnd(_, _)
\* JSON.parse reading one value at or after i: the place after the value, 0
\* when there is none.  With these characters a value is a number, an empty
\* object, an empty array or an array of one value.
ValueEnd(text, i) ==
    LET j == SkipBlanks(text, i) IN
    IF j > Len(text) THEN 0
    ELSE IF text[j] = "1" THEN SkipDigits(text, j)
    ELSE IF text[j] = "{"
    THEN LET k == SkipBlanks(text, j + 1) IN
         IF k <= Len(text) /\ text[k] = "}" THEN k + 1 ELSE 0
    ELSE IF text[j] = "["
    THEN LET k == SkipBlanks(text, j + 1) IN
         IF k <= Len(text) /\ text[k] = "]" THEN k + 1
         ELSE LET e == ValueEnd(text, k) IN
              IF e = 0 THEN 0
              ELSE LET m == SkipBlanks(text, e) IN
                   IF m <= Len(text) /\ text[m] = "]" THEN m + 1 ELSE 0
    ELSE 0

\* JSON.parse accepts the text
IsJson(text) ==
    LET e == ValueEnd(text, 1) IN e # 0 /\ SkipBlanks(text, e) > Len(text)

\* no generateJson call has been made
NoJson == [response |-> <<>>, outcome |-> "none", span |-> <<>>]

\* generateJson after generate has resolved with response
GenerateJson(response) ==
    LET jsonString == ExtractJson(response) IN
    IF jsonString = Null
    THEN [response |-> response, outcome |-> "ExtractionError", span |-> <<>>]
    ELSE IF IsJson(jsonString)
    THEN [response |-> response, outcome |-> "value", span |-> jsonString]
    ELSE [response |-> response, outcome |-> "ParseError", span |-> jsonString]

\* ---- the settings provider ----

\* the server addresses the user may enter, the first being the default
DefaultUrl == "a"
Urls == {"a", "b"}
\* defaultSettings.selectedModel
DefaultModel == "gemma"
\* the model lists a server may answer getModels with
ModelLists == { <<>>, <<"gemma">>, <<"llama">> }

\* useState of the provider: pending holds the refreshModels calls that wait
\* for getModels, each with the selectedModel its closure keeps and whether
\* it is the call started last; latest is how the call started last ended
DefaultSettings ==
    [ollamaUrl |-> DefaultUrl, selectedModel |-> DefaultModel,
     availableModels |-> <<>>, isModelLoading |-> TRUE, connectionError |-> FALSE,
     pending |-> <<>>, latest |-> [status |-> "none", models |-> <<>>]]

\* refreshModels up to its await
RefreshModels(st) ==
    [st EXCEPT !.isModelLoading = TRUE,
               !.connectionError = FALSE,
               !.pending = Append([i \in 1..Len(st.pending) |->
                                      [st.pending[i] EXCEPT !.newest = FALSE]],
                                  [selectedModel |-> st.selectedModel, newest |-> TRUE]),
               !.latest = [status |-> "pending", models |-> <<>>]]

\* sequence q without its i-th element
Without(q, i) == [j \in 1..(Len(q) - 1) |-> IF j < i THEN q[j] ELSE q[j + 1]]

\* models.some(m => m.name === name)
SomeModel(models, name) == \E k \in 1..Len(models) : models[k] = name

\* the i-th pending refreshModels after getModels has resolved with models
RefreshResolves(st, i, models) ==
    LET call == st.pending[i] IN
    [st EXCEPT !.availableModels = models,
               !.selectedModel = IF Len(models) > 0 /\ ~SomeModel(models, call.selectedModel)
                                 THEN models[1] ELSE @,
               !.isModelLoading = FALSE,
               !.pending = Without(@, i),
               !.latest = IF call.newest THEN [status |-> "resolved", models |-> models]
                          ELSE @]

\* the i-th pending refreshModels after getModels has rejected
RefreshRejects(st, i) ==
    LET call == st.pending[i] IN
    [st EXCEPT !.connectionError = TRUE,
               !.availableModels = <<>>,
               !.isModelLoading = FALSE,
               !.pending = Without(@, i),
               !.latest = IF call.newest THEN [status |-> "rejected", models |-> <<>>]
                          ELSE @]

\* setOllamaUrl and the effect that depends on settings.ollamaUrl
SetOllamaUrl(st, url) ==
    IF url = st.ollamaUrl THEN st ELSE RefreshModels([st EXCEPT !.ollamaUrl = url])

\* the provider after its first render and the refresh its effect starts
FirstSettings == RefreshModels(DefaultSettings)

\* the provider after that first refresh has failed
FailedSettings == RefreshRejects(FirstSettings, 1)

\* `!selectedModel || connectionError` as the chat view and the playground
\* test it
Blocked(st) == st.selectedModel = "" \/ st.connectionError

\* ---- the speech engine and the chat view ----

\* the values of the first render, which the memoized handlers keep
FirstSpeechState == "idle"
FirstMessages == <<>>

\* settings.triggerWord
TriggerWord == <<"o", "k">>

\* what the recognizer may hear while in standby and while listening
StandbyHeard == { <<"O", "k">>, <<"n", "o">> }
ListeningHeard == { <<"n", "o">>, <<SP>> }
\* what the user may type
Typed == { <<"n", "o">>, <<SP>> }
\* the text of the i-th chunk of the stream of request r: every chunk of a
\* run has its own letter, so that a message shows whose chunks it holds
Letters == <<"a", "b", "c", "d", "e", "f", "g", "h", "i", "j", "k", "l", "m", "n", "p", "q">>
ChunkText(r, i) == <<Letters[(((r - 1) * 4 + i - 1) % 16) + 1]>>
\* `Sorry, I encountered an error: ${error.message}`
ErrorMessage == <<"E", "r", "r">>

\* String.prototype.toLowerCase on the model's letters
LowerChar(c) == IF c = "O" THEN "o" ELSE IF c = "H" THEN "h" ELSE IF c = "E" THEN "e" ELSE c
ToLowerCase(t) == [i \in 1..Len(t) |-> LowerChar(t[i])]

\* String.prototype.includes
Includes(t, w) ==
    \E i \in 0..(Len(t) - Len(w)) : SubSeq(t, i + 1, i + Len(w)) = w

Punct == {".", "!", "?"}

\* the index of the last character of the longest run starting at i whose
\* characters are all in class (member) or all outside it (~member); i - 1
\* when there is none
RunEnd(s, i, class, member) ==
    LET stops == { j \in i..Len(s) : (s[j] \in class) # member } IN
    IF stops = {} THEN Len(s)
    ELSE (CHOOSE j \in stops : \A k \in stops : j <= k) - 1

RECURSIVE MatchAll(_, _)
\* text.match(/[^.!?]+[.!?\n]*/g) from index i on: the successive leftmost
\* greedy matches
MatchAll(s, i) ==
    LET starts == { j \in i..Len(s) : s[j] \notin Punct } IN
    IF starts = {} THEN <<>>
    ELSE LET p == CHOOSE j \in starts : \A k \in starts : j <= k
             q == RunEnd(s, p, Punct, FALSE)
             r == RunEnd(s, q + 1, Punct \cup {NL}, TRUE)
         IN <<SubSeq(s, p, r)>> \o MatchAll(s, r + 1)

\* text.match(...) || [text]
Sentences(text) ==
    IF MatchAll(text, 1) = <<>> THEN <<text>> ELSE MatchAll(text, 1)

NonBlank(f) == Trim(f) # <<>>

\* sentences.filter(s => s.trim().length > 0)
Fragments(text) == SelectSeq(Sentences(text), NonBlank)

\* a handler that has made no speak call; a listening session without result
NoSpeak == [made |-> FALSE, text |-> <<>>, pushed |-> <<>>]
NoResult == <<>>

\* a session counter, which stops counting at MaxCount
Bump(n) == IF n < MaxCount THEN n + 1 ELSE n

\* the state the handlers read and write, as one record, at the start of a
\* handler: said is the speak call the handler makes (its text and the
\* fragments pushed), ttsError tells that it is utterance.onerror, denied
\* that it is the onerror of a permission denial, error which recognizer
\* error it handles, asked which session the handler or its effects asked
\* the engine to start, stops the modes in which it or its effects called
\* stop, activated that handleActivation ran, typed the text that
\* handleTextInputSubmit took from the form and sent; triggers
\* counts the results of the standby session that held the trigger phrase,
\* activations its onActivation calls; heard holds the result of the
\* listening session and delivered the transcripts it passed to onTranscript
Cur ==
    [mode |-> mode, messages |-> messages, reqs |-> reqs, ss |-> speechState,
     pe |-> permissionError, queue |-> sentenceQueue, wake |-> wakeWordDetected,
     rec |-> recognition, stale |-> endPending, synth |-> synth,
     blocked |-> Blocked(settings),
     said |-> NoSpeak, ttsError |-> FALSE, denied |-> FALSE, asked |-> "none",
     error |-> "none", stops |-> {}, activated |-> FALSE, typed |-> <<>>,
     triggers |-> session.triggers, activations |-> session.activations,
     heard |-> session.heard, delivered |-> session.delivered]

\* the observations kept of state record t
LastOf(t) ==
    [said |-> t.said, ttsError |-> t.ttsError, denied |-> t.denied, asked |-> t.asked,
     error |-> t.error, stops |-> t.stops, activated |-> t.activated,
     typed |-> t.typed]
\* the observations kept in the chat view, whose properties do not tell the
\* events of the recognizer and of the synthesizer apart
ChatLastOf(t) == LastOf([t EXCEPT !.ttsError = FALSE, !.denied = FALSE, !.error = "none"])
SessionOf(t) ==
    [triggers |-> t.triggers, activations |-> t.activations,
     heard |-> t.heard, delivered |-> t.delivered]

\* what the last render saw of the state the effects depend on
Rendered(s) == [mode |-> s.mode, ss |-> s.ss, pe |-> s.pe, blocked |-> s.blocked]

\* ---- speech synthesis ----

\* processSentenceQueue of a render whose speechState was css: the utterance
\* it creates keeps this processSentenceQueue in its onend and onerror, so
\* the css of an utterance's handlers is never "speaking"
ProcessSentenceQueue(s, css) ==
    IF css = "speaking" \/ s.queue = <<>> THEN s
    ELSE [s EXCEPT !.ss = "speaking",
                   !.queue = Tail(s.queue),
                   !.synth = Append(s.synth, Head(s.queue))]

\* the speechState kept by the handlers of an utterance: any but "speaking"
UtteranceCss == "idle"

\* speak of a render whose speechState was css
Speak(s, css, text) ==
    ProcessSentenceQueue([s EXCEPT !.queue = s.queue \o Fragments(text),
                                   !.said = [made |-> TRUE, text |-> text,
                                             pushed |-> Fragments(text)]],
                         css)

\* utterance.onend
UtteranceOnEnd(s) ==
    IF s.queue # <<>> THEN ProcessSentenceQueue(s, UtteranceCss)
    ELSE [s EXCEPT !.ss = "idle"]

\* an onerror that resets the state and leaves the queue where it is
UtteranceOnErrorHalts(s) == [s EXCEPT !.ss = "idle", !.ttsError = TRUE]

\* utterance.onerror
UtteranceOnError(s) ==
    ProcessSentenceQueue([s EXCEPT !.ss = "idle", !.ttsError = TRUE], UtteranceCss)

\* ---- speech recognition ----

NoHandlers == "none"

\* recognition.start(): a recognizer that is already started throws
RecognitionStart(s, kind) ==
    IF s.rec.active # "none" THEN s
    ELSE [s EXCEPT !.rec.active = kind]

\* recognition.stop(): the session ends, its end event is dispatched later
RecognitionStop(s) ==
    IF s.rec.active = "none" THEN s
    ELSE [s EXCEPT !.rec.active = "none", !.stale = TRUE]

\* the handlers detached, the recognizer left running
DetachOnly(s) == [s EXCEPT !.rec.handlers = NoHandlers]

\* stopCurrentRecognition
StopCurrentRecognition(s) ==
    RecognitionStop([s EXCEPT !.rec.handlers = NoHandlers])

\* a startStandby that does not look at permissionError
StartStandbyUnguarded(s, css, pe) ==
    RecognitionStart([StopCurrentRecognition(s) EXCEPT
                         !.asked = "standby", !.ss = "standby", !.wake = FALSE,
                         !.rec.handlers = "standby", !.rec.css = css,
                         !.triggers = 0, !.activations = 0,
                         !.heard = NoResult, !.delivered = <<>>],
                     "continuous")

\* startStandby of a render whose speechState was css and permissionError pe
StartStandby(s, css, pe) ==
    IF pe THEN [s EXCEPT !.asked = "standby"]
    ELSE LET s1 == StopCurrentRecognition([s EXCEPT !.asked = "standby"])
             s2 == [s1 EXCEPT !.ss = "standby", !.wake = FALSE,
                              !.rec.handlers = "standby", !.rec.css = css,
                              !.triggers = 0, !.activations = 0,
                              !.heard = NoResult, !.delivered = <<>>]
         IN RecognitionStart(s2, "continuous")

\* a startListening that silences the engine first
StartListeningCancelling(s, css, pe) ==
    IF pe THEN [s EXCEPT !.asked = "listening"]
    ELSE RecognitionStart([StopCurrentRecognition(s) EXCEPT
                              !.asked = "listening", !.ss = "listening",
                              !.queue = <<>>, !.synth = <<>>,
                              !.rec.handlers = "listening", !.rec.css = css,
                              !.triggers = 0, !.activations = 0,
                              !.heard = NoResult, !.delivered = <<>>],
                          "oneshot")

\* startListening of a render whose speechState was css and permissionError pe
StartListening(s, css, pe) ==
    IF pe THEN [s EXCEPT !.asked = "listening"]
    ELSE LET s1 == StopCurrentRecognition([s EXCEPT !.asked = "listening"])
             s2 == [s1 EXCEPT !.ss = "listening",
                              !.rec.handlers = "listening", !.rec.css = css,
                              !.triggers = 0, !.activations = 0,
                              !.heard = NoResult, !.delivered = <<>>]
         IN RecognitionStart(s2, "oneshot")

\* a stop that leaves the recognizer as it is
StopLeavesSession(s) == [s EXCEPT !.stops = s.stops \cup {s.mode}]

\* stop
Stop(s) == [StopCurrentRecognition(s) EXCEPT !.stops = s.stops \cup {s.mode}]

\* ---- the chat view ----

UserMessage(text) == [role |-> "user", content |-> text, req |-> 0]
\* the placeholder of request r (req records which request created it)
AssistantMessage(text, r) == [role |-> "assistant", content |-> text, req |-> r]

\* handleUserMessage of a render whose messages were msgs and whose speak
\* kept speechState css
HandleUserMessage(s, msgs, css, text) ==
    LET r == Len(s.reqs) + 1 IN
    [s EXCEPT !.messages = Append(Append(msgs, UserMessage(text)), AssistantMessage(<<>>, r)),
              !.reqs = Append(s.reqs, [css |-> css, open |-> TRUE, sent |-> 0,
                                       spoke |-> <<>>, errored |-> FALSE])]

\* a handleActivation that only stops the engine
HandleActivationStopsOnly(s) == [Stop(s) EXCEPT !.activated = TRUE]

\* handleActivation (the first render's)
HandleActivation(s) == [Stop(s) EXCEPT !.mode = "listening", !.activated = TRUE]

\* handleTranscript (the first render's)
HandleTranscript(s, transcript) ==
    IF transcript # <<>>
    THEN HandleUserMessage([s EXCEPT !.mode = "responding"],
                           FirstMessages, FirstSpeechState, transcript)
    ELSE [s EXCEPT !.mode = "standby"]

\* a handleTextInputSubmit that looks at the text only
HandleTextInputSubmitAnyMode(s, m, msgs, css, inputText) ==
    LET text == Trim(inputText) IN
    IF text = <<>> THEN s
    ELSE HandleUserMessage([Stop(s) EXCEPT !.mode = "responding", !.typed = <<text>>],
                           msgs, css, text)

\* handleTextInputSubmit of a render whose mode was m, whose messages were
\* msgs and whose speechState was css, with inputText in the form
HandleTextInputSubmit(s, m, msgs, css, inputText) ==
    LET text == Trim(inputText) IN
    IF text = <<>> \/ m = "listening" \/ m = "responding" THEN s
    ELSE HandleUserMessage([Stop(s) EXCEPT !.mode = "responding", !.typed = <<text>>],
                           msgs, css, text)

\* the setMessages updater of onChunk
AppendToLast(msgs, chunk) ==
    LET n == Len(msgs) IN
    IF n > 0 /\ msgs[n].role = "assistant"
    THEN [msgs EXCEPT ![n].content = msgs[n].content \o chunk]
    ELSE msgs

\* the onChunk callback of request r (sent counts the chunks the stream has
\* delivered, spoke records the texts handed to speak)
OnChunk(s, r, chunk) ==
    LET s1 == Speak(s, s.reqs[r].css, chunk) IN
    [s1 EXCEPT !.messages = AppendToLast(s1.messages, chunk),
               !.reqs[r].sent = s.reqs[r].sent + 1,
               !.reqs[r].spoke = Append(s.reqs[r].spoke, chunk)]

\* the setMessages updater of onError
ReplaceLast(msgs, text) ==
    LET n == Len(msgs) IN
    [msgs EXCEPT ![n] = AssistantMessage(text, msgs[n].req)]

\* the onError callback of request r
OnError(s, r) ==
    LET s1 == [s EXCEPT !.messages = ReplaceLast(s.messages, ErrorMessage),
                        !.reqs[r].errored = TRUE]
    IN Speak(s1, s.reqs[r].css, ErrorMessage)

\* the onClose callback of request r: nothing but the end of the call
OnClose(s, r) == [s EXCEPT !.reqs[r].open = FALSE]

\* the cleanup of the mode effect of a render whose mode was m
ModeEffectCleanup(s, m) == IF m # "speaking" THEN Stop(s) ELSE s

\* the mode effect of render n
ModeEffect(s, n) ==
    IF n.blocked \/ n.pe THEN Stop(s)
    ELSE IF n.mode = "standby" THEN StartStandby(s, n.ss, n.pe)
    ELSE IF n.mode = "listening" THEN StartListening(s, n.ss, n.pe)
    ELSE IF n.mode = "responding" THEN Stop(s)
    ELSE s

\* a sync effect with the first rule only
SyncEffectOneWay(s, n) ==
    IF n.ss = "speaking" /\ n.mode # "speaking" THEN [s EXCEPT !.mode = "speaking"]
    ELSE s

\* the effect that syncs mode with the engine's state, of render n
SyncEffect(s, n) ==
    IF n.ss = "speaking" /\ n.mode # "speaking" THEN [s EXCEPT !.mode = "speaking"]
    ELSE IF n.ss # "speaking" /\ n.mode = "speaking" THEN [s EXCEPT !.mode = "standby"]
    ELSE s

\* one render of state s after render r, and its effects
RenderOnce(r, s) ==
    LET n == Rendered(s)
        modeDeps == n.mode # r.mode \/ n.blocked # r.blocked \/ n.pe # r.pe
        syncDeps == n.ss # r.ss \/ n.mode # r.mode
        s1 == IF modeDeps THEN ModeEffect(ModeEffectCleanup(s, r.mode), n) ELSE s
    IN IF syncDeps THEN SyncEffect(s1, n) ELSE s1

RECURSIVE Settle(_, _)
\* render and run effects until the state is the rendered one
Settle(r, s) ==
    IF Rendered(s) = r THEN s ELSE Settle(Rendered(s), RenderOnce(r, s))

\* the state after handler result s has been rendered
Commit(s) ==
    LET t == Settle(Rendered(Cur), s) IN
    /\ mode' = t.mode
    /\ messages' = t.messages
    /\ reqs' = t.reqs
    /\ speechState' = t.ss
    /\ permissionError' = t.pe
    /\ sentenceQueue' = t.queue
    /\ wakeWordDetected' = t.wake
    /\ recognition' = t.rec
    /\ endPending' = t.stale
    /\ synth' = t.synth
    /\ settings' = settings
    /\ json' = json
    /\ last' = ChatLastOf(t)
    /\ session' = SessionOf(t)

\* the state of useState/useRef at the first render
FirstRender ==
    [mode |-> "standby", messages |-> FirstMessages, reqs |-> <<>>,
     ss |-> FirstSpeechState, pe |-> FALSE, queue |-> <<>>, wake |-> FALSE,
     rec |-> [handlers |-> NoHandlers, css |-> FirstSpeechState, active |-> "none"],
     stale |-> FALSE, synth |-> <<>>, blocked |-> Blocked(FirstSettings),
     said |-> NoSpeak, ttsError |-> FALSE, denied |-> FALSE, asked |-> "none",
     error |-> "none", stops |-> {}, activated |-> FALSE, typed |-> <<>>,
     triggers |-> 0, activations |-> 0, heard |-> NoResult, delivered |-> <<>>]

\* the first render's effects have run
Mounted ==
    LET n == Rendered(FirstRender) IN
    Settle(n, SyncEffect(ModeEffect(FirstRender, n), n))

ChatMounted ==
    /\ mode = Mounted.mode
    /\ messages = Mounted.messages
    /\ reqs = Mounted.reqs
    /\ speechState = Mounted.ss
    /\ permissionError = Mounted.pe
    /\ sentenceQueue = Mounted.queue
    /\ wakeWordDetected = Mounted.wake
    /\ recognition = Mounted.rec
    /\ endPending = Mounted.stale
    /\ synth = Mounted.synth
    /\ settings = FirstSettings
    /\ json = NoJson
    /\ last = LastOf(Mounted)
    /\ session = SessionOf(Mounted)

----------------------------------------------------------------------------
(* generateChatStream *)

InitStream ==
    /\ body \in Bodies
    /\ pos = 0
    /\ buffer = <<>>
    /\ calls = <<>>
    /\ gpc = "fetch"
    /\ timerArmed = TRUE
    /\ aborted = FALSE
    /\ timedOut = FALSE
    /\ thrown = FALSE
    /\ failure = "none"
    /\ ChatMounted

\* the catch/finally path, shared by every way the call can fail
Failed(kind) ==
    LET f == Fail(calls) IN
    /\ calls' = f.calls
    /\ thrown' = f.thrown
    /\ failure' = kind
    /\ gpc' = "done"

\* fetch resolves with a 2xx response that has a body: the timer is cleared
\* and the reader loop starts
FetchResponds ==
    /\ gpc = "fetch"
    /\ timerArmed' = FALSE
    /\ gpc' = "reading"
    /\ UNCHANGED <<body, pos, buffer, calls, aborted, timedOut, thrown, failure>>
    /\ UNCHANGED ovars

\* fetch resolves with a non-2xx response or with no body
FetchRespondsBad ==
    /\ gpc = "fetch"
    /\ \E kind \in {"status", "nobody"} : Failed(kind)
    /\ timerArmed' = FALSE
    /\ UNCHANGED <<body, pos, buffer, aborted, timedOut>>
    /\ UNCHANGED ovars

\* fetch rejects with a network error
FetchRejects ==
    /\ gpc = "fetch"
    /\ Failed("network")
    /\ timerArmed' = FALSE
    /\ UNCHANGED <<body, pos, buffer, aborted, timedOut>>
    /\ UNCHANGED ovars

\* the timeout elapses while the request is in flight: when the timer is
\* still armed its callback aborts the fetch, which rejects
TimeoutElapses ==
    /\ gpc # "done"
    /\ ~timedOut
    /\ timedOut' = TRUE
    /\ IF timerArmed
         THEN /\ aborted' = TRUE
              /\ timerArmed' = FALSE
              /\ Failed("abort")
         ELSE UNCHANGED <<aborted, timerArmed, calls, thrown, failure, gpc>>
    /\ UNCHANGED <<body, pos, buffer>>
    /\ UNCHANGED ovars

\* reader.read() yields the next k characters of the body
ReadValue ==
    /\ gpc = "reading"
    /\ pos < Len(body)
    /\ \E k \in 1..(Len(body) - pos) :
         LET lines == SplitNL(buffer \o SubSeq(body, pos + 1, pos + k)) IN
         /\ pos' = pos + k
         /\ buffer' = PopLast(lines)
         /\ calls' = ProcessLines(calls, Front(lines))
    /\ UNCHANGED <<body, gpc, timerArmed, aborted, timedOut, thrown, failure>>
    /\ UNCHANGED ovars

\* reader.read() reports the end of the body
ReadDone ==
    /\ gpc = "reading"
    /\ pos = Len(body)
    /\ calls' = Finish(AtStreamEnd(calls, buffer))
    /\ gpc' = "done"
    /\ UNCHANGED <<body, pos, buffer, timerArmed, aborted, timedOut, thrown, failure>>
    /\ UNCHANGED ovars

\* reader.read() rejects: the connection broke in the middle of the stream
ReadRejects ==
    /\ gpc = "reading"
    /\ Failed("midstream")
    /\ UNCHANGED <<body, pos, buffer, timerArmed, aborted, timedOut>>
    /\ UNCHANGED ovars

NextStream ==
    \/ FetchResponds
    \/ FetchRespondsBad
    \/ FetchRejects
    \/ TimeoutElapses
    \/ ReadValue
    \/ ReadDone
    \/ ReadRejects

SpecStream == InitStream /\ [][NextStream]_vars

----------------------------------------------------------------------------
(* The chat view and the speech engine: events *)

GatewayIdle ==
    /\ body = <<>>
    /\ pos = 0
    /\ buffer = <<>>
    /\ calls = <<>>
    /\ gpc = "done"
    /\ timerArmed = FALSE
    /\ aborted = FALSE
    /\ timedOut = FALSE
    /\ thrown = FALSE
    /\ failure = "none"

Init == ChatMounted /\ GatewayIdle

\* recognition.onend as installed by startStandby or startListening
OnEnd(s) ==
    IF s.rec.handlers = "standby"
    THEN IF ~s.wake /\ s.rec.css = "standby" THEN RecognitionStart(s, "continuous") ELSE s
    ELSE IF s.rec.handlers = "listening"
    THEN IF s.rec.css = "listening" THEN [s EXCEPT !.ss = "idle"] ELSE s
    ELSE s

\* props.onActivation: handleActivation when the chat view is the caller,
\* nothing when the engine runs alone
OnActivation(props, s) ==
    LET s1 == [s EXCEPT !.activations = Bump(s.activations)] IN
    IF props = "ChatView" THEN HandleActivation(s1) ELSE s1

\* props.onTranscript: handleTranscript when the chat view is the caller
OnTranscript(props, s, transcript) ==
    LET s1 == [s EXCEPT !.delivered = Append(s.delivered, transcript)] IN
    IF props = "ChatView" THEN HandleTranscript(s1, transcript) ELSE s1

\* the recognizer hands a result to the standby handlers: it counts for the
\* session when it holds the trigger phrase in any letter case
StandbyHears(s, heard) ==
    IF \E i \in 0..(Len(heard) - Len(TriggerWord)) :
           ToLowerCase(SubSeq(heard, i + 1, i + Len(TriggerWord))) = ToLowerCase(TriggerWord)
    THEN [s EXCEPT !.triggers = Bump(s.triggers)]
    ELSE s

\* the one-shot session hands over its result and is over; its end event
\* follows
ListeningHears(s, heard) ==
    [s EXCEPT !.rec.active = "none", !.stale = TRUE, !.heard = <<heard>>]

\* an onresult that activates on every result holding the trigger phrase
StandbyOnResultEveryTime(s, heard, props) ==
    IF Includes(Trim(ToLowerCase(heard)), ToLowerCase(TriggerWord))
    THEN OnActivation(props, [s EXCEPT !.wake = TRUE])
    ELSE s

\* recognition.onresult as installed by startStandby
StandbyOnResult(s, heard, props) ==
    LET transcript == Trim(ToLowerCase(heard)) IN
    IF Includes(transcript, ToLowerCase(TriggerWord)) /\ ~s.wake
    THEN OnActivation(props, [s EXCEPT !.wake = TRUE])
    ELSE s

\* recognition.onresult as installed by startListening
ListeningOnResult(s, heard, props) ==
    LET finalTranscript == Trim(heard) IN
    IF finalTranscript # <<>> THEN OnTranscript(props, s, finalTranscript) ELSE s

\* recognition.onerror as installed by startStandby
StandbyOnError(s, error) ==
    IF error = "not-allowed"
    THEN [StopCurrentRecognition(s) EXCEPT !.pe = TRUE, !.ss = "idle"]
    ELSE IF error # "no-speech" THEN [s EXCEPT !.ss = "idle"]
    ELSE s

\* recognition.onerror as installed by startListening
ListeningOnError(s, error) ==
    IF error = "not-allowed"
    THEN [s EXCEPT !.pe = TRUE, !.ss = "idle"]
    ELSE [s EXCEPT !.ss = "idle"]

RecognitionErrors == {"not-allowed", "no-speech", "network"}

\* the recognizer hands an error to the handlers: `not-allowed` is the
\* platform's permission denial
Fails(s, error) == [s EXCEPT !.denied = (error = "not-allowed"), !.error = error]

\* the continuous session reports a result
StandbyResult ==
    /\ recognition.active # "none"
    /\ recognition.handlers = "standby"
    /\ \E heard \in StandbyHeard : Commit(StandbyOnResult(StandbyHears(Cur, heard), heard, "ChatView"))
    /\ UNCHANGED gvars

\* the one-shot session reports its result and is over; its end event follows
ListeningResult ==
    /\ recognition.active # "none"
    /\ recognition.handlers = "listening"
    /\ \E heard \in ListeningHeard :
         /\ Trim(heard) # <<>> => Len(reqs) < MaxRequests
         /\ Commit(ListeningOnResult(ListeningHears(Cur, heard), heard, "ChatView"))
    /\ UNCHANGED gvars

\* the running session ends by itself (the recognizer stops after silence)
RecognitionEnd ==
    /\ recognition.active # "none"
    /\ Commit(OnEnd([Cur EXCEPT !.rec.active = "none"]))
    /\ UNCHANGED gvars

\* the end event of a session that was stopped or has reported its result
PendingEnd ==
    /\ endPending
    /\ Commit(OnEnd([Cur EXCEPT !.stale = FALSE]))
    /\ UNCHANGED gvars

\* the running session reports an error
RecognitionError ==
    /\ recognition.active # "none"
    /\ recognition.handlers # NoHandlers
    /\ \E error \in RecognitionErrors :
         Commit(IF recognition.handlers = "standby"
                THEN StandbyOnError(Fails(Cur, error), error)
                ELSE ListeningOnError(Fails(Cur, error), error))
    /\ UNCHANGED gvars

\* the synthesizer finishes the utterance it is playing
UtteranceEnd ==
    /\ synth # <<>>
    /\ Commit(UtteranceOnEnd([Cur EXCEPT !.synth = Tail(synth)]))
    /\ UNCHANGED gvars

\* the synthesizer fails on the utterance it is playing
UtteranceError ==
    /\ synth # <<>>
    /\ Commit(UtteranceOnError([Cur EXCEPT !.synth = Tail(synth)]))
    /\ UNCHANGED gvars

\* handleTextInputSubmit of the current render
\* the form is submitted with inputText in it
Submits(inputText) ==
    /\ (Trim(inputText) # <<>> /\ mode \notin {"listening", "responding"}) =>
           Len(reqs) < MaxRequests
    /\ Commit(HandleTextInputSubmit(Cur, mode, messages, speechState, inputText))
    /\ UNCHANGED gvars

SubmitText == \E inputText \in Typed : Submits(inputText)

RECURSIVE TotalSent(_)
\* the chunks delivered so far by all the streams
TotalSent(rs) == IF rs = <<>> THEN 0 ELSE rs[1].sent + TotalSent(Tail(rs))

\* a stream delivers a chunk to its onChunk
StreamChunk ==
    /\ \E r \in 1..Len(reqs) :
         /\ reqs[r].open
         /\ TotalSent(reqs) < MaxChunks
         /\ Commit(OnChunk(Cur, r, ChunkText(r, reqs[r].sent + 1)))
    /\ UNCHANGED gvars

\* a stream fails: onError, then the finalizer
StreamError ==
    /\ \E r \in 1..Len(reqs) :
         /\ reqs[r].open
         /\ Commit(OnClose(OnError(Cur, r), r))
    /\ UNCHANGED gvars

\* a stream ends: the finalizer
StreamClose ==
    /\ \E r \in 1..Len(reqs) :
         /\ reqs[r].open
         /\ Commit(OnClose(Cur, r))
    /\ UNCHANGED gvars

Next ==
    \/ StandbyResult
    \/ ListeningResult
    \/ RecognitionEnd
    \/ PendingEnd
    \/ RecognitionError
    \/ UtteranceEnd
    \/ UtteranceError
    \/ SubmitText
    \/ StreamChunk
    \/ StreamError
    \/ StreamClose

Spec == Init /\ [][Next]_vars

----------------------------------------------------------------------------
(* The speech engine alone: SpecEngine.  Its caller invokes startStandby,  *)
(* startListening, stop and speak in any order, each of any render (css is *)
(* the speechState that render saw), and the callbacks it passes do        *)
(* nothing to the engine.                                                  *)

SpeechStates == {"idle", "standby", "listening", "speaking"}

\* the texts the caller hands to speak
SpeakTexts ==
    { <<"A", ".", SP, "B", "!", SP, "C", "?">>, <<"c", NL, "d">>, <<SP>>, <<>> }

InitEngine ==
    /\ mode = FirstRender.mode
    /\ messages = FirstRender.messages
    /\ reqs = FirstRender.reqs
    /\ speechState = FirstRender.ss
    /\ permissionError = FirstRender.pe
    /\ sentenceQueue = FirstRender.queue
    /\ wakeWordDetected = FirstRender.wake
    /\ recognition = FirstRender.rec
    /\ endPending = FirstRender.stale
    /\ synth = FirstRender.synth
    /\ settings = FirstSettings
    /\ json = NoJson
    /\ last = LastOf(FirstRender)
    /\ session = SessionOf(FirstRender)
    /\ GatewayIdle

\* the engine's state after a handler, with no chat view to render
EngineCommit(t) ==
    /\ speechState' = t.ss
    /\ permissionError' = t.pe
    /\ sentenceQueue' = t.queue
    /\ wakeWordDetected' = t.wake
    /\ recognition' = t.rec
    /\ endPending' = t.stale
    /\ synth' = t.synth
    /\ last' = LastOf(t)
    /\ session' = SessionOf(t)
    /\ UNCHANGED <<mode, messages, reqs, settings, json>>
    /\ UNCHANGED gvars

CallStartStandby ==
    \E css \in SpeechStates : EngineCommit(StartStandby(Cur, css, permissionError))

CallStartListening ==
    \E css \in SpeechStates : EngineCommit(StartListening(Cur, css, permissionError))

CallStop == EngineCommit(Stop(Cur))

CallSpeak ==
    /\ Len(sentenceQueue) + Len(synth) < MaxQueue
    /\ \E css \in SpeechStates, text \in SpeakTexts : EngineCommit(Speak(Cur, css, text))

EngineStandbyResult ==
    /\ recognition.active # "none"
    /\ recognition.handlers = "standby"
    /\ \E heard \in StandbyHeard : EngineCommit(StandbyOnResult(StandbyHears(Cur, heard), heard, "none"))

EngineListeningResult ==
    /\ recognition.active # "none"
    /\ recognition.handlers = "listening"
    /\ \E heard \in ListeningHeard :
         EngineCommit(ListeningOnResult(ListeningHears(Cur, heard), heard, "none"))

EngineRecognitionEnd ==
    /\ recognition.active # "none"
    /\ EngineCommit(OnEnd([Cur EXCEPT !.rec.active = "none"]))

EnginePendingEnd ==
    /\ endPending
    /\ EngineCommit(OnEnd([Cur EXCEPT !.stale = FALSE]))

EngineRecognitionError ==
    /\ recognition.active # "none"
    /\ recognition.handlers # NoHandlers
    /\ \E error \in RecognitionErrors :
         EngineCommit(IF recognition.handlers = "standby"
                      THEN StandbyOnError(Fails(Cur, error), error)
                      ELSE ListeningOnError(Fails(Cur, error), error))

EngineUtteranceEnd ==
    /\ synth # <<>>
    /\ EngineCommit(UtteranceOnEnd([Cur EXCEPT !.synth = Tail(synth)]))

EngineUtteranceError ==
    /\ synth # <<>>
    /\ EngineCommit(UtteranceOnError([Cur EXCEPT !.synth = Tail(synth)]))

NextEngine ==
    \/ CallStartStandby
    \/ CallStartListening
    \/ CallStop
    \/ CallSpeak
    \/ EngineStandbyResult
    \/ EngineListeningResult
    \/ EngineRecognitionEnd
    \/ EnginePendingEnd
    \/ EngineRecognitionError
    \/ EngineUtteranceEnd
    \/ EngineUtteranceError

SpecEngine == InitEngine /\ [][NextEngine]_vars


----------------------------------------------------------------------------
(* The chat view when the model list could not be fetched at start-up:     *)
(* SpecBlocked.  The provider's first refresh has failed before the user   *)
(* did anything, and the provider is left alone afterwards.                *)

\* the chat view rendered again with the connection error
MountedBlocked ==
    Settle(Rendered(Mounted), [Mounted EXCEPT !.blocked = TRUE, !.asked = "none"])

InitBlocked ==
    /\ mode = MountedBlocked.mode
    /\ messages = MountedBlocked.messages
    /\ reqs = MountedBlocked.reqs
    /\ speechState = MountedBlocked.ss
    /\ permissionError = MountedBlocked.pe
    /\ sentenceQueue = MountedBlocked.queue
    /\ wakeWordDetected = MountedBlocked.wake
    /\ recognition = MountedBlocked.rec
    /\ endPending = MountedBlocked.stale
    /\ synth = MountedBlocked.synth
    /\ settings = FailedSettings
    /\ json = NoJson
    /\ last = ChatLastOf(MountedBlocked)
    /\ session = SessionOf(MountedBlocked)
    /\ GatewayIdle

NextBlocked ==
    \/ PendingEnd
    \/ UtteranceEnd
    \/ UtteranceError
    \/ SubmitText
    \/ StreamChunk
    \/ StreamError
    \/ StreamClose

SpecBlocked == InitBlocked /\ [][NextBlocked]_vars

----------------------------------------------------------------------------
(* One generateJson call: SpecJson.  The model answers with any response   *)
(* of up to MaxText characters.                                            *)

InitJson ==
    /\ json \in { [response |-> r, outcome |-> "pending", span |-> <<>>] : r \in Responses }
    /\ mode = FirstRender.mode
    /\ messages = FirstRender.messages
    /\ reqs = FirstRender.reqs
    /\ speechState = FirstRender.ss
    /\ permissionError = FirstRender.pe
    /\ sentenceQueue = FirstRender.queue
    /\ wakeWordDetected = FirstRender.wake
    /\ recognition = FirstRender.rec
    /\ endPending = FirstRender.stale
    /\ synth = FirstRender.synth
    /\ settings = FirstSettings
    /\ last = LastOf(FirstRender)
    /\ session = SessionOf(FirstRender)
    /\ GatewayIdle

\* generate resolves and generateJson returns or throws
GenerateResolves ==
    /\ json.outcome = "pending"
    /\ json' = GenerateJson(json.response)
    /\ UNCHANGED <<mode, messages, reqs, speechState, permissionError, sentenceQueue,
                   wakeWordDetected, recognition, endPending, synth, settings, last, session>>
    /\ UNCHANGED gvars

NextJson == GenerateResolves

SpecJson == InitJson /\ [][NextJson]_vars

----------------------------------------------------------------------------
(* The settings provider alone: SpecSettings.  The user changes the server *)
(* address and asks for refreshes; getModels answers each call at any      *)
(* time, in any order.                                                     *)

InitSettings == InitEngine

\* the provider's state after one of its handlers
SettingsCommit(st) ==
    /\ settings' = st
    /\ UNCHANGED hvars
    /\ UNCHANGED gvars

\* the user edits the server address
UrlChanges ==
    /\ Len(settings.pending) < MaxRefreshes
    /\ \E url \in Urls \ {settings.ollamaUrl} : SettingsCommit(SetOllamaUrl(settings, url))

\* the user presses "Test & Refresh", which is disabled while loading
ManualRefresh ==
    /\ ~settings.isModelLoading
    /\ Len(settings.pending) < MaxRefreshes
    /\ SettingsCommit(RefreshModels(settings))

\* getModels resolves for one of the calls
ModelsArrive ==
    \E i \in 1..Len(settings.pending), models \in ModelLists :
        SettingsCommit(RefreshResolves(settings, i, models))

\* getModels rejects for one of the calls
ModelsFail ==
    \E i \in 1..Len(settings.pending) : SettingsCommit(RefreshRejects(settings, i))

NextSettings ==
    \/ UrlChanges
    \/ ManualRefresh
    \/ ModelsArrive
    \/ ModelsFail

SpecSettings == InitSettings /\ [][NextSettings]_vars

----------------------------------------------------------------------------
(* Properties of the chat view, checked under Spec *)

\* the requests whose onComplete has not fired yet
InFlight == { r \in 1..Len(reqs) : reqs[r].open }

RECURSIVE ChunksUpTo(_, _)
\* the first n chunks of the stream of request r, in arrival order
ChunksUpTo(r, n) ==
    IF n = 0 THEN <<>> ELSE Append(ChunksUpTo(r, n - 1), ChunkText(r, n))

RECURSIVE Concat(_)
\* c1 + ... + cn
Concat(texts) == IF texts = <<>> THEN <<>> ELSE texts[1] \o Concat(Tail(texts))

\* the places in the history of the assistant message created for request r
Placeholders(r) ==
    { i \in 1..Len(messages) : messages[i].role = "assistant" /\ messages[i].req = r }

\* C1: at most one streaming generation request is in flight.
C1_OneStreamInFlight == Cardinality(InFlight) <= 1

\* every stream has completed, the sentence queue has drained, nothing is
\* playing and the recognizer has no event to deliver: no event is to come
Quiescent ==
    /\ InFlight = {}
    /\ sentenceQueue = <<>>
    /\ synth = <<>>
    /\ recognition.active = "none"
    /\ ~endPending

\* C2: the orchestration does not come to rest in `responding`: once every
\* stream has completed, the queue has drained and no event is to come, the
\* mode has left `responding`, whatever the stream delivered.
C2_LeavesResponding == Quiescent => mode # "responding"

\* C4: for every request, after chunks c1..cn its assistant placeholder holds
\* c1 + ... + cn and speak has been invoked with c1, ..., cn in that order.
C4_ChunksReachPlaceholder ==
    \A r \in 1..Len(reqs) :
        ~reqs[r].errored =>
            /\ reqs[r].spoke = ChunksUpTo(r, reqs[r].sent)
            /\ reqs[r].open => Placeholders(r) # {}
            /\ \A i \in Placeholders(r) :
                   messages[i].content = Concat(ChunksUpTo(r, reqs[r].sent))

\* C10: a streaming request that has been superseded by a new streamChat
\* call is no longer in flight: it was aborted and its finalizer has run.
C10_SupersededIsAborted ==
    \A r \in 1..Len(reqs) : r < Len(reqs) => ~reqs[r].open

----------------------------------------------------------------------------
(* Properties of speech synthesis *)

\* a is an initial part of b
IsPrefix(a, b) == Len(a) <= Len(b) /\ SubSeq(b, 1, Len(a)) = a

\* the fragments playing and waiting, in the order they are to be heard
Pipeline == synth \o sentenceQueue

\* C11: a speak call made while the engine is speaking only appends its
\* fragments to the sentence queue and leaves the playback alone, and the
\* fragments are played FIFO, each once: what is playing and waiting only
\* loses its head (a fragment has been played) or grows at its tail.
C11_SpeakOnlyEnqueues ==
    [][ /\ (last'.said.made /\ speechState = "speaking") =>
               /\ synth' = synth
               /\ sentenceQueue' = sentenceQueue \o last'.said.pushed
        /\ \/ IsPrefix(Pipeline, Pipeline')
           \/ Pipeline # <<>> /\ IsPrefix(Tail(Pipeline), Pipeline') ]_vars

\* C12: from the speak call that starts a playback until the queue is empty
\* and the last fragment has completed, SpeechState is `speaking`: whenever
\* a fragment is playing or waiting, the state is `speaking`.
C12_SpeakingUntilDrained == Pipeline # <<>> => speechState = "speaking"

\* C13: speak splits its text at `.`, `!`, `?` and newline, each delimiter
\* kept with its fragment, and pushes the fragments that are not blank, in
\* order: no pushed fragment is blank, none goes on after a newline, and
\* speak("A. B! C?") pushes exactly "A.", "B!", "C?".
C13_SpeakSplits ==
    last.said.made =>
        /\ \A k \in 1..Len(last.said.pushed) :
               LET f == last.said.pushed[k] IN
               /\ Trim(f) # <<>>
               /\ \A i \in 1..Len(f) : f[i] = NL => Trim(SubSeq(f, i + 1, Len(f))) = <<>>
        /\ last.said.text = <<"A", ".", SP, "B", "!", SP, "C", "?">> =>
               last.said.pushed = << <<"A", ".">>, <<"B", "!">>, <<"C", "?">> >>

\* C14: a speak call with an empty or whitespace-only text, made while the
\* state is `idle`, pushes nothing, leaves the sentence queue as it was and
\* leaves the state `idle`.
C14_BlankSpeakIsNoOp ==
    [][ (last'.said.made /\ Trim(last'.said.text) = <<>> /\ speechState = "idle") =>
            /\ last'.said.pushed = <<>>
            /\ sentenceQueue' = sentenceQueue
            /\ speechState' = "idle" ]_vars

\* C15: a playback error on a fragment counts as its completion: when
\* fragments are waiting the next one is handed to playback and the state is
\* `speaking`, and the state is `idle` after the error only when none waits.
C15_ErrorAdvances ==
    [][ last'.ttsError =>
            IF sentenceQueue # <<>>
            THEN /\ synth' = Append(Tail(synth), Head(sentenceQueue))
                 /\ sentenceQueue' = Tail(sentenceQueue)
                 /\ speechState' = "speaking"
            ELSE /\ synth' = Tail(synth)
                 /\ sentenceQueue' = <<>>
                 /\ speechState' = "idle" ]_vars

\* C15 witness: a playback error has just advanced the queue to the next
\* fragment, and a further fragment still waits
C15_Witness ==
    /\ last.ttsError
    /\ speechState = "speaking"
    /\ synth # <<>>
    /\ sentenceQueue # <<>>

----------------------------------------------------------------------------
(* Properties of speech recognition in the chat view, checked under Spec *)

\* C17: a standby session that ends by itself while the engine is in
\* `standby` and the wake word has not been detected is restarted: as long
\* as the state is `standby` under the standby handlers with no wake word
\* detected, a continuous session is running, ready to hear the phrase.
C17_StandbyRestarts ==
    (speechState = "standby" /\ recognition.handlers = "standby" /\ ~wakeWordDetected)
        => recognition.active = "continuous"

\* C18: when a listening session has ended by itself without a result, the
\* transcript callback has not been invoked and SpeechState is `idle`.
C18_ListeningEndsIdle ==
    (recognition.handlers = "listening" /\ recognition.active = "none"
        /\ session.heard = NoResult)
        => (session.delivered = <<>> /\ speechState = "idle")

\* C24: once all effects have run, ChatMode is `speaking` exactly when
\* SpeechState is `speaking`.
C24_ModeFollowsSpeech == (mode = "speaking") <=> (speechState = "speaking")

\* the engine speaks and the chat view shows it
C24_Witness == mode = "speaking" /\ speechState = "speaking" /\ synth # <<>>

\* C25: no handler and no effect of the chat view calls the engine's stop()
\* while ChatMode is `speaking`.
C25_NoStopWhileSpeaking == "speaking" \notin last.stops

\* C26: while ChatMode is `responding` no recognition session runs and the
\* recognizer holds no handler, so that neither the wake-word activation
\* nor the transcript callback can fire.
C26_RespondingIsDeaf ==
    mode = "responding" => (recognition.active = "none" /\ recognition.handlers = NoHandlers)

\* a request streams in mode `responding` after a session has been torn down
C26_Witness ==
    /\ mode = "responding"
    /\ InFlight # {}
    /\ "responding" \in last.stops
    /\ endPending

\* C27: on the wake-word activation the chat view stops the engine and sets
\* ChatMode to `listening`, a one-shot listening session is then started,
\* and no generation request is made.
C27_ActivationStartsListening ==
    [][ last'.activated =>
            /\ mode \in last'.stops
            /\ mode' = "listening"
            /\ last'.asked = "listening"
            /\ recognition'.handlers = "listening"
            /\ recognition'.active = "oneshot"
            /\ reqs' = reqs ]_vars

\* the activation has happened and the one-shot session runs
C27_Witness ==
    /\ last.activated
    /\ mode = "listening"
    /\ recognition.active = "oneshot"

\* C28: a transcript handed to the chat view sets ChatMode to `responding`,
\* appends to the history one user message holding the transcript and one
\* empty assistant placeholder after it, and makes one generation request.
C28_TranscriptAppendsExchange ==
    [][ Len(session'.delivered) > Len(session.delivered) =>
            LET transcript == session'.delivered[Len(session'.delivered)] IN
            /\ mode' = "responding"
            /\ messages' = messages \o <<UserMessage(transcript),
                                         AssistantMessage(<<>>, Len(reqs) + 1)>>
            /\ Len(reqs') = Len(reqs) + 1 ]_vars

\* C29: a transcript or a manual submission removes and changes no message
\* of the history: the history before it is a prefix of the history after.
C29_HistoryIsAppendOnly ==
    [][ Len(reqs') > Len(reqs) => IsPrefix(messages, messages') ]_vars

\* C30: when the stream of a request fails, the content of that request's
\* assistant message becomes the error text, the same text is handed to
\* speak(), no message is added, and the history holds one assistant
\* message of that request.
C30_ErrorReplacesPlaceholder ==
    [][ \A r \in 1..Len(reqs) :
            (~reqs[r].errored /\ reqs'[r].errored) =>
                LET own == { i \in 1..Len(messages') :
                               messages'[i].role = "assistant" /\ messages'[i].req = r }
                IN /\ Len(messages') = Len(messages)
                   /\ Cardinality(own) = 1
                   /\ \A i \in own : messages'[i].content = ErrorMessage
                   /\ \A i \in 1..Len(messages) : i \notin own => messages'[i] = messages[i]
                   /\ last'.said.made
                   /\ last'.said.text = ErrorMessage ]_vars

C34_StreamingIsDeaf ==
    InFlight # {} =>
        /\ mode \notin {"standby", "listening"}
        /\ recognition.active = "none"

\* C35: a chunk or an error of a request changes no message of the history
\* other than the assistant message created for that request.
C35_OwnMessageOnly ==
    [][ \A r \in 1..Len(reqs) :
            (reqs'[r].sent > reqs[r].sent \/ (reqs'[r].errored /\ ~reqs[r].errored)) =>
                /\ Len(messages') = Len(messages)
                /\ \A i \in 1..Len(messages) :
                       messages[i].req # r => messages'[i] = messages[i] ]_vars

\* C36: no fragment is left behind: whenever a fragment waits in the
\* sentence queue an utterance is with the synthesizer, whose end or error
\* event will hand the next fragment to playback.
C36_NoStrandedFragment == sentenceQueue # <<>> => synth # <<>>

\* C37: at most one utterance at a time is with the platform synthesizer.
C37_OneUtteranceAtATime == Len(synth) <= 1


\* C39: ChatMode does not stay `listening` forever. While it is `listening`
\* the manual submission is refused, so only an event of the platform or of a
\* stream can move it: whenever the mode is `listening`, a session is
\* running, an end event is undelivered, an utterance is playing or a
\* request is in flight.
C39_ListeningEnds ==
    mode = "listening" =>
        \/ recognition.active # "none"
        \/ endPending
        \/ synth # <<>>
        \/ InFlight # {}

----------------------------------------------------------------------------
(* Properties of the speech engine, checked under SpecEngine *)

\* C3: the recognizer runs at most one session, and a running session is
\* the one the engine started last: a continuous session only under the
\* standby handlers, a one-shot session only under the listening handlers, so
\* a standby session and a listening session are never active together.
C3_OneSessionAtATime ==
    /\ recognition.active = "continuous" => recognition.handlers = "standby"
    /\ recognition.active = "oneshot" => recognition.handlers = "listening"

\* C3 witness: a listening session runs after a standby session was stopped,
\* whose end event is still to come
C3_Witness ==
    /\ recognition.active = "oneshot"
    /\ recognition.handlers = "listening"
    /\ endPending
    /\ speechState = "listening"

\* C16: wake-word detection ignores letter case and activates once per
\* standby session: onActivation has been called exactly once when a result
\* of the session held the trigger phrase in any case, however many did, and
\* not at all when none did.
C16_ActivatesOnce ==
    session.activations = (IF session.triggers > 0 THEN 1 ELSE 0)

\* C16 witness: two results of one standby session held the trigger phrase,
\* spelt with a capital letter
C16_Witness ==
    /\ session.triggers = 2
    /\ session.activations = 1
    /\ recognition.handlers = "standby"
    /\ \E heard \in StandbyHeard : heard # TriggerWord /\ ToLowerCase(heard) = TriggerWord

\* C19: the result of a listening session is delivered through the
\* transcript callback, trimmed, exactly once in the session.
C19_TranscriptDeliveredOnce ==
    session.heard # NoResult => session.delivered = <<Trim(session.heard[1])>>

\* C20: a permission denial in a standby or a listening session sets
\* permissionError; while it is set it stays set, and no step, the
\* startStandby and startListening calls included, starts a session,
\* installs handlers, changes the wake flag or makes the state `standby` or
\* `listening`.
C20_PermissionErrorSticky ==
    [][ /\ last'.denied => permissionError'
        /\ permissionError =>
               /\ permissionError'
               /\ recognition'.active \in {recognition.active, "none"}
               /\ recognition'.handlers \in {recognition.handlers, NoHandlers}
               /\ speechState' \in {speechState, "idle", "speaking"}
               /\ wakeWordDetected' = wakeWordDetected ]_vars

\* C20 witness: after a denial the engine has been asked to start a session
\* and has started none
C20_Witness ==
    /\ permissionError
    /\ last.asked \in {"standby", "listening"}
    /\ recognition.active = "none"
    /\ speechState = "idle"

\* C21: in a standby and in a listening session alike, a recognizer error
\* other than the permission denial and other than `no-speech` leaves
\* SpeechState `idle`, and a `no-speech` error leaves SpeechState as it was.
C21_ErrorsResetState ==
    [][ /\ last'.error \notin {"none", "not-allowed", "no-speech"} => speechState' = "idle"
        /\ last'.error = "no-speech" => speechState' = speechState ]_vars

\* C22: the end event of a session that was stopped to make room for a new
\* one, delivered while the new session runs, changes nothing: it restarts
\* no recognition, invokes no callback, and leaves SpeechState alone.
C22_StaleEndIsIgnored ==
    [][ (endPending /\ ~endPending' /\ recognition.active # "none") =>
            /\ speechState' = speechState
            /\ recognition' = recognition
            /\ session' = session
            /\ mode' = mode ]_vars

C38_StateReflectsRecognizer ==
    /\ speechState = "standby" => (recognition.active = "continuous" \/ endPending)
    /\ speechState = "listening" => recognition.active = "oneshot"
    /\ recognition.active # "none" => speechState \in {"standby", "listening"}

----------------------------------------------------------------------------
(* Properties of generateChatStream, checked under SpecStream *)

\* how often callback cb has been invoked
Count(cb) == Cardinality({ i \in 1..Len(calls) : calls[i].cb = cb })

RECURSIVE Texts(_)
\* the texts handed to onChunk, in order
Texts(cs) ==
    IF cs = <<>> THEN <<>>
    ELSE IF cs[1].cb = "chunk" THEN <<cs[1].text>> \o Texts(Tail(cs))
    ELSE Texts(Tail(cs))

RECURSIVE Contents(_)
\* the non-empty message contents of the well-formed records among lines
Contents(lines) ==
    IF lines = <<>> THEN <<>>
    ELSE LET c == ParseContent(lines[1]) IN
         IF Trim(lines[1]) # <<>> /\ c \notin {"malformed", ""}
         THEN <<c>> \o Contents(Tail(lines))
         ELSE Contents(Tail(lines))

\* the records of a response body: its lines, the last one whether or not a
\* newline follows it
Records(b) == SplitNL(b)

HasMalformed(b) ==
    \E i \in 1..Len(Records(b)) :
        /\ Trim(Records(b)[i]) # <<>>
        /\ ParseContent(Records(b)[i]) = "malformed"

EndedNormally == gpc = "done" /\ failure = "none"

\* C5: once the stream has ended, onChunk has been called exactly once for
\* each record of the body with non-empty content, in arrival order, however
\* the body was split across reads and whether or not the last record is
\* followed by a newline.
C5_OneChunkPerRecord == EndedNormally => Texts(calls) = Contents(Records(body))

\* C6: onComplete fires at most once, only when the call has ended, as the
\* last callback (so after every onChunk, and no onChunk follows it), and it
\* has fired exactly once when the call has ended, also with zero chunks.
C6_CompleteOnceAfterChunks ==
    /\ Count("close") <= 1
    /\ Count("close") = 1 => (gpc = "done" /\ calls[Len(calls)].cb = "close")
    /\ gpc = "done" => Count("close") = 1

\* C6 witness: a stream that delivered two chunks and then completed
C6_Witness == EndedNormally /\ Len(calls) = 3 /\ Count("chunk") = 2

\* C7: when the request failed, onError has fired exactly once, onComplete
\* exactly once right after it, and nothing was thrown to the caller.
C7_ErrorThenComplete ==
    (gpc = "done" /\ failure # "none") =>
        /\ Count("error") = 1
        /\ Count("close") = 1
        /\ Len(calls) >= 2
        /\ calls[Len(calls) - 1].cb = "error"
        /\ calls[Len(calls)].cb = "close"
        /\ ~thrown

\* C7 witness: the connection broke after a chunk had been delivered
C7_Witness == gpc = "done" /\ failure = "midstream" /\ Count("chunk") >= 1

\* C8: a malformed line triggers neither onChunk nor onError, and every
\* well-formed record before and after it is delivered, in order.
C8_MalformedSkipped ==
    (EndedNormally /\ HasMalformed(body)) =>
        /\ Count("error") = 0
        /\ Texts(calls) = Contents(Records(body))

\* C9: a request that is in flight when its timeout elapses is aborted.
C9_TimeoutAborts == timedOut => aborted

----------------------------------------------------------------------------
(* Properties of the chat view behind a connection error, checked under    *)
(* SpecBlocked                                                             *)

\* C32: while a connection error is recorded or no model is selected, no
\* handler of the chat view starts a recognition session or makes a
\* generation request.
C32_BlockedEntryPoints ==
    [][ Blocked(settings) =>
            /\ recognition'.active = "none"
            /\ last'.asked = "none"
            /\ Len(reqs') = Len(reqs) ]_vars

----------------------------------------------------------------------------
(* Properties of the settings provider, checked under SpecSettings *)

\* C40: the loading flag is false only when no refresh is in flight, and
\* once every refresh has settled the available models and the connection
\* error are those of the refresh that was started last.
C40_LatestRefreshWins ==
    /\ ~settings.isModelLoading => settings.pending = <<>>
    /\ settings.pending = <<>> =>
           /\ settings.connectionError = (settings.latest.status = "rejected")
           /\ settings.availableModels = settings.latest.models

----------------------------------------------------------------------------
(* Properties of generateJson, checked under SpecJson *)

\* the places of the trimmed response that hold an opening bracket
Openings(text) == { i \in 1..Len(text) : text[i] \in {"{", "["} }

\* the least and the greatest of a set of places
Least(places) == CHOOSE i \in places : \A j \in places : i <= j
Greatest(places) == CHOOSE i \in places : \A j \in places : i >= j

\* C33: the call fails with an extraction error when the response has no
\* opening bracket, or no closing bracket of the kind of its first opening
\* bracket after it; otherwise the span runs from the first opening bracket
\* to the last closing bracket of that kind, and the call fails with a parse
\* error exactly when the span is not valid JSON.
C33_ExtractsOutermostSpan ==
    json.outcome \notin {"none", "pending"} =>
        LET text == Trim(json.response) IN
        IF Openings(text) = {} THEN json.outcome = "ExtractionError"
        ELSE LET start == Least(Openings(text))
                 closer == IF text[start] = "{" THEN "}" ELSE "]"
                 closings == { i \in (start + 1)..Len(text) : text[i] = closer }
             IN IF closings = {} THEN json.outcome = "ExtractionError"
                ELSE /\ json.span = SubSeq(text, start, Greatest(closings))
                     /\ json.outcome = (IF IsJson(json.span) THEN "value" ELSE "ParseError")

\* an array holding an array has been extracted from a response that has a
\* digit before it, and has parsed
C33_Witness ==
    /\ json.response = <<"1", "[", "[", "]", "]">>
    /\ json.span = <<"[", "[", "]", "]">>
    /\ json.outcome = "value"

====
